---------------------------- MODULE Spec2Model ----------------------------
(***************************************************************************)
(* Model of plover_stroke_counter/plugin.py: the StrokeCounterPlugin       *)
(* (start / on_stroke / stop, the one-shot 5 s threading.Timer) and the    *)
(* StrokeCounterGUI thread (run, process_strokes, update_count,            *)
(* _update_count, reset_count, _reset_count, close).                       *)
(*                                                                         *)
(* Python threads interleave between attribute reads, so every read of     *)
(* self.gui is a step of its own.  wx.CallAfter appends to the FIFO of     *)
(* pending events of the GUI's event loop (evq); wx.CallLater arms a       *)
(* one-shot timer of that loop (poll_armed).  Each StrokeCounterGUI is     *)
(* given an event loop of its own.                                         *)
(***************************************************************************)
EXTENDS Naturals, Sequences, FiniteSets

\* ------------------------------------------------------------- bounds
NumCallers == 2   \* threads of the host that deliver strokes (on_stroke)
MaxStrokes == 3   \* on_stroke calls
MaxResets  == 1   \* reset_count calls
MaxStops   == 2   \* stop calls
MaxStarts  == 1   \* start calls besides the Timer's

\* What the environment does in one run, as the calls it may make.  Each
\* profile stretches one kind of call and keeps the others at one or none.
\* strokes and resets at a display that is left running
FlowProfile ==
  [strokes |-> MaxStrokes, resets |-> MaxResets, stops |-> 0, starts |-> 0]
\* repeated stop() around a single stroke
StopProfile ==
  [strokes |-> 1, resets |-> 0, stops |-> MaxStops, starts |-> 0]
\* start() calls by the host besides the Timer's, with one stop() and one stroke
StartProfile ==
  [strokes |-> 1, resets |-> 0, stops |-> 1, starts |-> MaxStarts]
\* strokes and resets with one stop()
MixedProfile ==
  [strokes |-> MaxStrokes - 1, resets |-> MaxResets, stops |-> 1, starts |-> 0]
Profiles == {FlowProfile, StopProfile, StartProfile, MixedProfile}
\* the runs in which liveness is examined
FairProfiles == {FlowProfile, StopProfile}

None    == 0
TimerT  == 0
Callers == 1..NumCallers
HostT   == NumCallers + 1   \* the host thread that calls start() and stop()
Threads == {TimerT, HostT} \cup Callers
Guis    == 1..(MaxStarts + 1)

VARIABLES
  gui,          \* StrokeCounterPlugin.gui: None or a StrokeCounterGUI
  hooks,        \* registrations of on_stroke with the engine's "stroked" hook
  pc,           \* per thread: where it is in start / on_stroke / stop
  newgui,       \* per thread: the StrokeCounterGUI start() has constructed
  raised,       \* exceptions that have propagated out of a call
  ngui,         \* StrokeCounterGUI objects constructed so far
  uipc,         \* per GUI: position of its thread (run / MainLoop / process_strokes)
  stroke_count, \* per GUI: self.stroke_count
  stroke_queue, \* per GUI: self.stroke_queue
  wx_ready,     \* per GUI: self.wx_ready
  frame,        \* per GUI: self.frame: "none", "shown", "closed"
  text,         \* per GUI: n for the label "Total Strokes: n"
  evq,          \* per GUI: pending wx.CallAfter events, in order
  poll_armed,   \* per GUI: a wx.CallLater(100, process_strokes) is pending
  budget,       \* calls the environment may still make
  hist          \* history: what has been called and applied so far

plugin_vars == <<gui, hooks, pc, newgui, raised, ngui>>
gui_vars    == <<uipc, stroke_count, stroke_queue, wx_ready, frame, text, evq, poll_armed>>
vars        == <<gui, hooks, pc, newgui, raised, ngui, uipc, stroke_count,
                 stroke_queue, wx_ready, frame, text, evq, poll_armed, budget, hist>>

Ev(op, n) == [op |-> op, n |-> n]

\* f-string "Total Strokes: {self.stroke_count}": the number shown after the prefix
LabelOf(count) == count

\* faulty variant of CallAfter: the event is put ahead of the pending ones
CallAfter_front(g, e) == evq' = [evq EXCEPT ![g] = <<e>> \o @]

\* wx.CallAfter(f, ...): post to the event loop of GUI g
CallAfter(g, e) == evq' = [evq EXCEPT ![g] = Append(@, e)]

\* the pending events of GUI g that call op
Pending(g, op) == Len(SelectSeq(evq[g], LAMBDA e : e.op = op))

\* nothing of GUI g is left to apply: the stroke queue is empty and no
\* _update_count or _reset_count is pending in the event loop
Drained(g) ==
  /\ stroke_queue[g] = <<>>
  /\ Pending(g, "update") = 0
  /\ Pending(g, "reset") = 0

\* --------------------------------------------------------------- Init
\* StrokeCounterPlugin.__init__: gui None, hook connected, Timer started
InitWith(profiles) ==
  /\ gui = None
  /\ hooks = 1
  /\ pc = [t \in Threads |-> IF t = TimerT THEN "armed" ELSE "idle"]
  /\ newgui = [t \in Threads |-> None]
  /\ raised = {}
  /\ ngui = 0
  /\ uipc = [g \in Guis |-> "none"]
  /\ stroke_count = [g \in Guis |-> 0]
  /\ stroke_queue = [g \in Guis |-> <<>>]
  /\ wx_ready = [g \in Guis |-> FALSE]
  /\ frame = [g \in Guis |-> "none"]
  /\ text = [g \in Guis |-> 0]
  /\ evq = [g \in Guis |-> <<>>]
  /\ poll_armed = [g \in Guis |-> FALSE]
  /\ budget \in profiles
  /\ hist = [issued    |-> 0,
             after_stop  |-> 0,
             host_starts |-> 0,
             stops_begun |-> 0,
             stops_done  |-> 0,
             enqueued  |-> [g \in Guis |-> 0],
             applied   |-> [g \in Guis |-> 0],
             resets    |-> [g \in Guis |-> 0],
             since_reset |-> [g \in Guis |-> 0],
             handed    |-> [g \in Guis |-> 0],
             dirty     |-> {},
             by_timer  |-> {}]

Init == InitWith(Profiles)

\* ------------------------------------------------ StrokeCounterPlugin
\* StrokeCounterGUI.__init__: fields set, then self.start() starts the thread
StrokeCounterGUI_init(g) ==
  /\ stroke_count' = [stroke_count EXCEPT ![g] = 0]
  /\ wx_ready' = [wx_ready EXCEPT ![g] = FALSE]
  /\ stroke_queue' = [stroke_queue EXCEPT ![g] = <<>>]
  /\ uipc' = [uipc EXCEPT ![g] = "started"]

\* the test of start(): if self.gui is None
start_guard == gui = None

\* start(), first step: the Timer thread when the 5 s have passed, or a caller
start_test(t) ==
  /\ \/ t = TimerT /\ pc[t] = "armed"
     \/ t = HostT /\ pc[t] = "idle" /\ budget.starts > 0
  /\ pc' = [pc EXCEPT ![t] = IF start_guard THEN "start_create" ELSE "idle"]
  /\ budget' = IF t = TimerT THEN budget ELSE [budget EXCEPT !.starts = @ - 1]
  /\ hist' = IF t = TimerT THEN hist ELSE [hist EXCEPT !.host_starts = @ + 1]
  /\ UNCHANGED <<gui, hooks, newgui, raised, ngui, gui_vars>>

\* start(), StrokeCounterGUI(): the object is constructed and its thread started
start_create(t) ==
  /\ pc[t] = "start_create"
  /\ ngui' = ngui + 1
  /\ StrokeCounterGUI_init(ngui + 1)
  /\ newgui' = [newgui EXCEPT ![t] = ngui + 1]
  /\ pc' = [pc EXCEPT ![t] = "start_assign"]
  /\ hist' = IF t = TimerT THEN [hist EXCEPT !.by_timer = @ \cup {ngui + 1}] ELSE hist
  /\ UNCHANGED <<gui, hooks, raised, frame, text, evq, poll_armed, budget>>

\* start(), self.gui = <the new object>
start_assign(t) ==
  /\ pc[t] = "start_assign"
  /\ gui' = newgui[t]
  /\ newgui' = [newgui EXCEPT ![t] = None]
  /\ pc' = [pc EXCEPT ![t] = "idle"]
  /\ UNCHANGED <<hooks, raised, ngui, gui_vars, budget, hist>>

\* faulty variant of update_count: a bounded queue, whose put() waits while full
update_count_bounded(g) ==
  /\ Len(stroke_queue[g]) < 1
  /\ stroke_queue' = [stroke_queue EXCEPT ![g] = Append(@, 1)]
  /\ hist' = [hist EXCEPT !.enqueued[g] = @ + 1, !.since_reset[g] = @ + 1]

\* StrokeCounterGUI.update_count: self.stroke_queue.put(1) on an unbounded Queue
update_count(g) ==
  /\ stroke_queue' = [stroke_queue EXCEPT ![g] = Append(@, 1)]
  /\ hist' = [hist EXCEPT !.enqueued[g] = @ + 1, !.since_reset[g] = @ + 1]

\* faulty variant of on_stroke_guard: on_stroke without its test
on_stroke_unguarded == TRUE

\* the test of on_stroke(): if self.gui
on_stroke_guard == gui # None

\* on_stroke(), first step: the test
on_stroke_test(t) ==
  /\ t \in Callers /\ pc[t] = "idle" /\ budget.strokes > 0
  /\ budget' = [budget EXCEPT !.strokes = @ - 1]
  /\ pc' = [pc EXCEPT ![t] = IF on_stroke_guard THEN "stroke_call" ELSE "idle"]
  /\ hist' = [hist EXCEPT !.issued = @ + 1,
                           !.after_stop = IF hist.stops_done > 0 THEN @ + 1 ELSE @]
  /\ UNCHANGED <<gui, hooks, newgui, raised, ngui, gui_vars>>

\* on_stroke(), self.gui.update_count(): self.gui is read again
on_stroke_call(t) ==
  /\ pc[t] = "stroke_call"
  /\ pc' = [pc EXCEPT ![t] = "idle"]
  /\ IF gui = None
       THEN /\ raised' = raised \cup {"on_stroke: AttributeError"}
            /\ UNCHANGED <<stroke_queue, hist>>
       ELSE /\ update_count(gui)
            /\ UNCHANGED raised
  /\ UNCHANGED <<gui, hooks, newgui, ngui, uipc, stroke_count, wx_ready, frame,
                 text, evq, poll_armed, budget>>

\* StrokeCounterGUI.close: the frame's Close is posted only once wx is ready
close(g) ==
  IF wx_ready[g] THEN CallAfter(g, Ev("close", 0)) ELSE UNCHANGED evq

\* stop(), first step: if self.gui
stop_test(t) ==
  /\ t = HostT /\ pc[t] = "idle" /\ budget.stops > 0
  /\ budget' = [budget EXCEPT !.stops = @ - 1]
  /\ pc' = [pc EXCEPT ![t] = IF gui # None THEN "stop_close" ELSE "stop_disconnect"]
  /\ hist' = [hist EXCEPT !.stops_begun = @ + 1]
  /\ UNCHANGED <<gui, hooks, newgui, raised, ngui, gui_vars>>

\* stop(), self.gui.close(): self.gui is read again
stop_close(t) ==
  /\ pc[t] = "stop_close"
  /\ IF gui = None
       THEN /\ raised' = raised \cup {"stop: AttributeError"}
            /\ pc' = [pc EXCEPT ![t] = "idle"]
            /\ UNCHANGED evq
       ELSE /\ close(gui)
            /\ pc' = [pc EXCEPT ![t] = "stop_clear"]
            /\ UNCHANGED raised
  /\ UNCHANGED <<gui, hooks, newgui, ngui, uipc, stroke_count, stroke_queue,
                 wx_ready, frame, text, poll_armed, budget, hist>>

\* stop(), self.gui = None
stop_clear(t) ==
  /\ pc[t] = "stop_clear"
  /\ gui' = None
  /\ pc' = [pc EXCEPT ![t] = "stop_disconnect"]
  /\ UNCHANGED <<hooks, newgui, raised, ngui, gui_vars, budget, hist>>

\* stop(), self.engine.hook_disconnect("stroked", self.on_stroke), whatever the
\* test found.  What the engine does with a callback it does not hold is the
\* host's: it raises (a list's remove) or ignores the call.
stop_disconnect(t) ==
  /\ pc[t] = "stop_disconnect"
  /\ pc' = [pc EXCEPT ![t] = "idle"]
  /\ hist' = [hist EXCEPT !.stops_done = @ + 1]
  /\ \/ hooks > 0 /\ hooks' = hooks - 1 /\ UNCHANGED raised
     \/ hooks = 0 /\ UNCHANGED hooks /\ raised' = raised \cup {"stop: ValueError"}
     \/ hooks = 0 /\ UNCHANGED <<hooks, raised>>
  /\ UNCHANGED <<gui, newgui, ngui, gui_vars, budget>>

\* --------------------------------------------------- StrokeCounterGUI
\* run() up to MainLoop(): the app, the frame and the label "Total Strokes: 0"
\* are created, the frame shown, wx_ready set, the first poll armed and the
\* frame's Layout posted
run(g) ==
  /\ uipc[g] = "started"
  /\ frame' = [frame EXCEPT ![g] = "shown"]
  /\ text' = [text EXCEPT ![g] = 0]
  /\ wx_ready' = [wx_ready EXCEPT ![g] = TRUE]
  /\ poll_armed' = [poll_armed EXCEPT ![g] = TRUE]
  /\ CallAfter(g, Ev("layout", 0))
  /\ uipc' = [uipc EXCEPT ![g] = "loop"]
  /\ UNCHANGED <<plugin_vars, stroke_count, stroke_queue, budget, hist>>

\* the wx.CallLater timer fires: the event loop enters process_strokes
poll_tick(g) ==
  /\ uipc[g] = "loop" /\ poll_armed[g]
  /\ poll_armed' = [poll_armed EXCEPT ![g] = FALSE]
  /\ uipc' = [uipc EXCEPT ![g] = "poll"]
  /\ UNCHANGED <<plugin_vars, stroke_count, stroke_queue, wx_ready, frame, text,
                 evq, budget, hist>>

\* faulty variant of process_strokes: the callback returns without arming the
\* next tick
process_strokes_no_rearm(g) ==
  /\ uipc[g] = "poll"
  /\ IF stroke_queue[g] # <<>>
       THEN uipc' = [uipc EXCEPT ![g] = "poll_get"]
       ELSE uipc' = [uipc EXCEPT ![g] = "loop"]
  /\ UNCHANGED <<plugin_vars, stroke_count, stroke_queue, wx_ready, frame, text,
                 evq, poll_armed, budget, hist>>

\* process_strokes, the test of its loop: while not self.stroke_queue.empty();
\* when the queue is empty the next tick is armed and the callback returns
process_strokes(g) ==
  /\ uipc[g] = "poll"
  /\ IF stroke_queue[g] # <<>>
       THEN /\ uipc' = [uipc EXCEPT ![g] = "poll_get"]
            /\ UNCHANGED poll_armed
       ELSE /\ poll_armed' = [poll_armed EXCEPT ![g] = TRUE]
            /\ uipc' = [uipc EXCEPT ![g] = "loop"]
  /\ UNCHANGED <<plugin_vars, stroke_count, stroke_queue, wx_ready, frame, text,
                 evq, budget, hist>>

\* faulty variant of process_strokes_get: the item taken is not handed to the
\* event loop
process_strokes_get_drop(g) ==
  /\ uipc[g] = "poll_get" /\ stroke_queue[g] # <<>>
  /\ stroke_queue' = [stroke_queue EXCEPT ![g] = Tail(@)]
  /\ uipc' = [uipc EXCEPT ![g] = "poll"]
  /\ UNCHANGED <<plugin_vars, stroke_count, wx_ready, frame, text, evq,
                 poll_armed, budget, hist>>

\* faulty variant of process_strokes_get: the item taken is handed over twice
process_strokes_get_twice(g) ==
  /\ uipc[g] = "poll_get" /\ stroke_queue[g] # <<>>
  /\ stroke_queue' = [stroke_queue EXCEPT ![g] = Tail(@)]
  /\ evq' = [evq EXCEPT ![g] = @ \o << Ev("update", Head(stroke_queue[g])),
                                        Ev("update", Head(stroke_queue[g])) >>]
  /\ hist' = [hist EXCEPT !.handed[g] = @ + 1]
  /\ uipc' = [uipc EXCEPT ![g] = "poll"]
  /\ UNCHANGED <<plugin_vars, stroke_count, wx_ready, frame, text, poll_armed,
                 budget>>

\* process_strokes, the body of its loop: strokes = self.stroke_queue.get(),
\* which waits while the queue is empty, then wx.CallAfter(self._update_count,
\* strokes)
process_strokes_get(g) ==
  /\ uipc[g] = "poll_get" /\ stroke_queue[g] # <<>>
  /\ stroke_queue' = [stroke_queue EXCEPT ![g] = Tail(@)]
  /\ CallAfter(g, Ev("update", Head(stroke_queue[g])))
  /\ hist' = [hist EXCEPT !.handed[g] = @ + 1]
  /\ uipc' = [uipc EXCEPT ![g] = "poll"]
  /\ UNCHANGED <<plugin_vars, stroke_count, wx_ready, frame, text, poll_armed,
                 budget>>

\* faulty variant of _update_count: the count is assigned, not added to
update_count_ui_assign(g, strokes) ==
  /\ stroke_count' = [stroke_count EXCEPT ![g] = strokes]
  /\ text' = [text EXCEPT ![g] = LabelOf(strokes)]
  /\ hist' = [hist EXCEPT !.applied[g] = @ + 1]
  /\ UNCHANGED frame

\* faulty variant of _update_count: the label is set before the count is added to
update_count_ui_stale_label(g, strokes) ==
  /\ stroke_count' = [stroke_count EXCEPT ![g] = @ + strokes]
  /\ text' = [text EXCEPT ![g] = LabelOf(stroke_count[g])]
  /\ hist' = [hist EXCEPT !.applied[g] = @ + 1]
  /\ UNCHANGED frame

\* faulty variant of _update_count: the strokes are added twice
update_count_ui_double(g, strokes) ==
  /\ stroke_count' = [stroke_count EXCEPT ![g] = @ + strokes + strokes]
  /\ text' = [text EXCEPT ![g] = LabelOf(stroke_count[g] + strokes + strokes)]
  /\ hist' = [hist EXCEPT !.applied[g] = @ + 1]
  /\ UNCHANGED frame

\* _update_count(strokes)
update_count_ui(g, strokes) ==
  /\ stroke_count' = [stroke_count EXCEPT ![g] = @ + strokes]
  /\ text' = [text EXCEPT ![g] = LabelOf(stroke_count[g] + strokes)]
  /\ hist' = [hist EXCEPT !.applied[g] = @ + 1]
  /\ UNCHANGED frame

\* faulty variant of _reset_count: the label is reset, the count is not
reset_count_ui_label_only(g) ==
  /\ text' = [text EXCEPT ![g] = 0]
  /\ UNCHANGED <<stroke_count, frame, hist>>

\* _reset_count()
reset_count_ui(g) ==
  /\ stroke_count' = [stroke_count EXCEPT ![g] = 0]
  /\ text' = [text EXCEPT ![g] = 0]
  /\ UNCHANGED <<frame, hist>>

\* faulty variant of reset_count: _reset_count is called on the caller's thread
reset_count_direct(g) ==
  /\ budget.resets > 0 /\ frame[g] # "none"
  /\ budget' = [budget EXCEPT !.resets = @ - 1]
  /\ stroke_count' = [stroke_count EXCEPT ![g] = 0]
  /\ text' = [text EXCEPT ![g] = 0]
  /\ hist' = [hist EXCEPT !.resets[g] = @ + 1, !.since_reset[g] = 0,
                           !.handed[g] = 0,
                           !.dirty = IF Drained(g) THEN @ ELSE @ \cup {g}]
  /\ UNCHANGED <<plugin_vars, uipc, stroke_queue, wx_ready, frame, evq, poll_armed>>

\* reset_count(event): the button's handler, or a call from any thread
reset_count(g) ==
  /\ budget.resets > 0 /\ frame[g] # "none"
  /\ budget' = [budget EXCEPT !.resets = @ - 1]
  /\ CallAfter(g, Ev("reset", 0))
  /\ hist' = [hist EXCEPT !.resets[g] = @ + 1, !.since_reset[g] = 0,
                           !.handed[g] = 0,
                           !.dirty = IF Drained(g) THEN @ ELSE @ \cup {g}]
  /\ UNCHANGED <<plugin_vars, uipc, stroke_count, stroke_queue, wx_ready, frame,
                 text, poll_armed>>

\* MainLoop dispatches the oldest pending CallAfter event
dispatch(g) ==
  /\ uipc[g] = "loop" /\ evq[g] # <<>>
  /\ evq' = [evq EXCEPT ![g] = Tail(@)]
  /\ LET e == Head(evq[g]) IN
       CASE e.op = "update" -> update_count_ui(g, e.n)
         [] e.op = "reset"  -> reset_count_ui(g)
         [] e.op = "close"  -> /\ frame' = [frame EXCEPT ![g] = "closed"]
                               /\ UNCHANGED <<stroke_count, text, hist>>
         [] OTHER           -> UNCHANGED <<stroke_count, text, frame, hist>>
  /\ UNCHANGED <<plugin_vars, uipc, stroke_queue, wx_ready, poll_armed, budget>>

\* MainLoop returns once the frame has been closed; run() and the thread end
main_loop_exit(g) ==
  /\ uipc[g] = "loop" /\ frame[g] = "closed"
  /\ uipc' = [uipc EXCEPT ![g] = "exited"]
  /\ UNCHANGED <<plugin_vars, stroke_count, stroke_queue, wx_ready, frame, text,
                 evq, poll_armed, budget, hist>>

\* --------------------------------------------------------------- Next
Next ==
  \/ \E t \in Threads : start_test(t)
  \/ \E t \in Threads : start_create(t)
  \/ \E t \in Threads : start_assign(t)
  \/ \E t \in Threads : on_stroke_test(t)
  \/ \E t \in Threads : on_stroke_call(t)
  \/ \E t \in Threads : stop_test(t)
  \/ \E t \in Threads : stop_close(t)
  \/ \E t \in Threads : stop_clear(t)
  \/ \E t \in Threads : stop_disconnect(t)
  \/ \E g \in Guis : run(g)
  \/ \E g \in Guis : poll_tick(g)
  \/ \E g \in Guis : process_strokes(g)
  \/ \E g \in Guis : process_strokes_get(g)
  \/ \E g \in Guis : reset_count(g)
  \/ \E g \in Guis : dispatch(g)
  \/ \E g \in Guis : main_loop_exit(g)

Spec == Init /\ [][Next]_vars

\* the event loop and the poll timer run: wx dispatches pending events between
\* timer ticks, and a started thread gets to run
FairInit == InitWith(FairProfiles)

FairSpec ==
  /\ FairInit /\ [][Next]_vars
  /\ \A g \in Guis : /\ WF_vars(run(g))
                     /\ WF_vars(poll_tick(g))
                     /\ WF_vars(process_strokes(g))
                     /\ WF_vars(process_strokes_get(g))
                     /\ SF_vars(dispatch(g))

TypeOK ==
  /\ gui \in {None} \cup Guis
  /\ ngui \in 0..(MaxStarts + 1)
  /\ \A g \in Guis : stroke_count[g] \in Nat

\* ------------------------------------------------------------- claims
NoCallInFlight == \A t \in Callers : pc[t] = "idle"

\* C1: with no reset requested, once the stroke queue is empty and every
\* scheduled _update_count has run, stroke_count and the label equal the number
\* N of update_count calls the caller threads have completed.
C1_DrainedCountIsN ==
  \A g \in Guis :
    (hist.resets[g] = 0 /\ Drained(g))
      => (stroke_count[g] = hist.enqueued[g] /\ text[g] = hist.enqueued[g])

C1_Witness ==
  \E g \in Guis :
    /\ hist.resets[g] = 0 /\ Drained(g) /\ NoCallInFlight
    /\ hist.enqueued[g] = MaxStrokes
    /\ text[g] = MaxStrokes

\* C2: a reset was requested and no update_count completed after it; once
\* everything is drained the label shows 0.
C2_ResetThenDrainShowsZero ==
  \A g \in Guis :
    (hist.resets[g] > 0 /\ hist.since_reset[g] = 0 /\ Drained(g) /\ NoCallInFlight)
      => text[g] = 0

\* C3: no stop, no reset, a single display, everything drained: the count is the
\* number of on_stroke calls since the plugin was constructed, those made while
\* gui was still None included.
C3_PreStartStrokesCounted ==
  \A g \in Guis :
    (/\ gui = g /\ uipc[g] = "loop" /\ ngui = 1
     /\ hist.stops_begun = 0 /\ hist.resets[g] = 0
     /\ Drained(g) /\ NoCallInFlight)
      => stroke_count[g] = hist.issued

\* a close has been requested of GUI g, or carried out
Closing(g) == frame[g] = "closed" \/ Pending(g, "close") > 0

\* every update_count call is in the stroke queue, in the event loop as one
\* _update_count, or applied: once, in one of the three
Conservation(g) ==
  hist.enqueued[g] = hist.applied[g] + Len(stroke_queue[g]) + Pending(g, "update")

\* C4: every increment enqueued is taken from the queue by one tick and applied
\* by one _update_count, never none and never two, and while the display is
\* running the n-th increment enqueued is eventually applied.
C4_AppliedExactlyOnce ==
  /\ [](\A g \in Guis : Conservation(g))
  /\ \A g \in Guis : \A n \in 1..MaxStrokes :
       (hist.enqueued[g] >= n) ~> (hist.applied[g] >= n \/ Closing(g))

C4_Witness ==
  \E g \in Guis :
    /\ hist.enqueued[g] = MaxStrokes /\ hist.applied[g] = MaxStrokes
    /\ ~Closing(g) /\ stroke_count[g] = MaxStrokes

\* C5: once a stop() has returned and gui is None, a call of on_stroke returns
\* at its test: it raises nothing, enqueues nothing and touches no GUI or window.
C5_StrokeAfterStopDropped ==
  [][\A t \in Callers :
       (hist.stops_done > 0 /\ gui = None /\ on_stroke_test(t))
         => (/\ pc'[t] = "idle"
             /\ raised' = raised
             /\ UNCHANGED <<gui, ngui, gui_vars>>)]_vars

C5_Witness ==
  /\ hist.after_stop > 0 /\ gui = None /\ NoCallInFlight
  /\ raised = {}
  /\ \E g \in Guis : frame[g] = "closed" /\ hist.enqueued[g] = 0

\* C6: once a stop() has returned (and the host has never called start()), no
\* window gets shown.
C6_ClosedAfterStop ==
  [][(hist.stops_done > 0 /\ hist.host_starts = 0)
       => \A g \in Guis : frame[g] # "shown" => frame'[g] # "shown"]_vars

\* C7: a caller in on_stroke can always take its next step, whatever the state
\* of the UI thread and the length of the queue.
C7_NotifyNeverBlocks ==
  \A t \in Callers :
    /\ pc[t] = "stroke_call" => ENABLED on_stroke_call(t)
    /\ (pc[t] = "idle" /\ budget.strokes > 0) => ENABLED on_stroke_test(t)

C7_Witness ==
  \E t \in Callers :
    /\ pc[t] = "stroke_call" /\ gui # None
    /\ uipc[gui] = "exited" /\ Len(stroke_queue[gui]) >= 1

\* C8: as long as stop() has not been called, the start() calls (the Timer's and
\* the host's, concurrent or not) construct at most one StrokeCounterGUI.
C8_DoubleStartNoSecondGui == hist.stops_begun = 0 => ngui <= 1

\* C9: a stop() after a completed stop(), finding gui None, changes nothing and
\* raises nothing.
C9_SecondStopNoOp ==
  [][(/\ hist.stops_done > 0 /\ gui = None
      /\ (stop_test(HostT) \/ stop_disconnect(HostT)))
       => UNCHANGED <<gui, hooks, evq, raised>>]_vars

\* C10: at most one display ever leaves the uninitialized state.
C10_AtMostOneDisplay == Cardinality({g \in Guis : frame[g] # "none"}) <= 1

\* a process_strokes tick of GUI g is running
InTick(g) == uipc[g] \in {"poll", "poll_get"}

\* C11: once the frame has been closed, no process_strokes tick is scheduled
\* and none is running.
C11_NoPollAfterClose ==
  \A g \in Guis : frame[g] = "closed" => (~poll_armed[g] /\ ~InTick(g))

\* C12: when every reset was requested with everything before it drained, a
\* drained display shows the number of strokes notified since the last reset
\* (since the start if there was none).
C12_CountSinceReset ==
  \A g \in Guis :
    (g \notin hist.dirty /\ Drained(g))
      => (text[g] = hist.since_reset[g] /\ stroke_count[g] = hist.since_reset[g])

C12_Witness ==
  \E g \in Guis :
    /\ hist.resets[g] > 0 /\ g \notin hist.dirty /\ Drained(g)
    /\ hist.since_reset[g] >= 1 /\ hist.enqueued[g] > hist.since_reset[g]
    /\ text[g] = hist.since_reset[g]

\* C13: no on_stroke call raises, however it interleaves with stop().
C13_OnStrokeNeverRaises == "on_stroke: AttributeError" \notin raised

\* C14: while no reset has been applied, the count, the queued items and the
\* pending _update_count events add up to the update_count calls completed;
\* whatever the resets, the count never exceeds those calls.
C14_ConservationOfStrokes ==
  \A g \in Guis :
    /\ hist.resets[g] = Pending(g, "reset")
         => stroke_count[g] + Len(stroke_queue[g]) + Pending(g, "update")
              = hist.enqueued[g]
    /\ stroke_count[g] <= hist.enqueued[g]

C14_Witness ==
  \E g \in Guis :
    /\ hist.resets[g] = Pending(g, "reset")
    /\ stroke_count[g] >= 1 /\ Len(stroke_queue[g]) >= 1 /\ Pending(g, "update") >= 1

\* C15: the steps of on_stroke (with update_count), of stop (with close) and of
\* reset_count, taken on threads other than the GUI's, leave the count, the
\* label and the frame as they are.
C15_OnlyUiThreadWritesCount ==
  [][(\/ \E t \in Threads : \/ on_stroke_test(t) \/ on_stroke_call(t)
                            \/ stop_test(t) \/ stop_close(t)
                            \/ stop_clear(t) \/ stop_disconnect(t)
      \/ \E g \in Guis : reset_count(g))
       => UNCHANGED <<stroke_count, text, frame>>]_vars

C15_Witness ==
  \E g \in Guis :
    /\ stroke_count[g] >= 1 /\ Pending(g, "reset") >= 1
    /\ Len(stroke_queue[g]) >= 1 /\ text[g] = stroke_count[g]

\* C16: get() is called only on a non-empty queue; a tick ends only on an empty
\* queue and then arms exactly the next tick, none being armed while it runs;
\* and every tick ends.
C16_TickDrainsAndRearms ==
  /\ [](\A g \in Guis : /\ uipc[g] = "poll_get" => stroke_queue[g] # <<>>
                        /\ InTick(g) => ~poll_armed[g])
  /\ [][\A g \in Guis :
          (InTick(g) /\ ~InTick(g)')
            => (stroke_queue[g] = <<>> /\ poll_armed'[g] /\ uipc'[g] = "loop")]_vars
  /\ \A g \in Guis : InTick(g) ~> (uipc[g] = "loop")

C16_Witness ==
  \E g \in Guis :
    /\ uipc[g] = "loop" /\ poll_armed[g] /\ stroke_queue[g] = <<>>
    /\ hist.handed[g] = MaxStrokes /\ hist.resets[g] = 0

\* C17: once every requested reset has been applied, the count and the pending
\* _update_count events are the increments handed to the event loop after the
\* last reset request: those handed over before it were zeroed by it, those
\* handed over after it were applied after it.
C17_EventLoopOrder ==
  \A g \in Guis :
    (hist.resets[g] > 0 /\ Pending(g, "reset") = 0)
      => stroke_count[g] + Pending(g, "update") = hist.handed[g]

C17_Witness ==
  \E g \in Guis :
    /\ hist.resets[g] > 0 /\ Pending(g, "reset") = 0 /\ Pending(g, "update") = 0
    /\ hist.handed[g] >= 1 /\ stroke_count[g] = hist.handed[g]
    /\ hist.applied[g] > hist.handed[g]

\* C18: from the creation of the window on, the label is "Total Strokes: "
\* followed by stroke_count.
C18_LabelShowsCount ==
  \A g \in Guis : frame[g] # "none" => text[g] = LabelOf(stroke_count[g])

C18_Witness ==
  \E g \in Guis :
    /\ frame[g] = "shown" /\ stroke_count[g] >= 2 /\ text[g] = stroke_count[g]
    /\ hist.resets[g] > 0 /\ Pending(g, "reset") = 0

\* C19: stroke_count starts at 0, is a natural number in every state, and every
\* step leaves it, adds 1 to it or sets it to 0.
C19_CountNonNegative ==
  /\ \A g \in Guis : stroke_count[g] = 0
  /\ [](\A g \in Guis : stroke_count[g] \in Nat)
  /\ [][\A g \in Guis :
          stroke_count'[g] \in {stroke_count[g], stroke_count[g] + 1, 0}]_vars

C19_Witness ==
  \E g \in Guis :
    /\ stroke_count[g] = 0 /\ hist.applied[g] >= 2
    /\ hist.resets[g] > 0 /\ Pending(g, "reset") = 0 /\ Pending(g, "update") = 0

====
